---- MODULE Spec2Model ----
(***************************************************************************)
(* A model of the CompressibleEuler1D finite-volume solver: mesh, ideal-gas *)
(* equation of state, boundary fills, numerical fluxes, MUSCL              *)
(* reconstruction, the explicit time integrators and Solver::run().        *)
(*                                                                         *)
(* Real numbers.  The code computes in IEEE binary floating point (Real =  *)
(* double).  The model keeps the rounding: a Real is an integer number of  *)
(* units of 2^-FracBits, every arithmetic result is rounded to MantBits    *)
(* significant bits, ties to even, and values below 2^MantBits units lie   *)
(* on the unit grid (gradual underflow).  A result whose magnitude exceeds  *)
(* the largest finite Real, or a non-zero value divided by zero, is Inf or *)
(* -Inf; an invalid operation (0/0, Inf - Inf, 0 * Inf, the square root of *)
(* a negative number) is NaN, which propagates through arithmetic and      *)
(* makes every comparison false.  Zero has no sign in the model.           *)
(***************************************************************************)
EXTENDS Integers, Sequences, FiniteSets, TLC

\* ------------------------------------------------------------------ bounds
\* Significand width of the modelled Real (double has 53).
MantBits == 6
\* The unit of the grid is 2^-FracBits.
FracBits == 5
\* The largest finite Real is (2^MantBits - 1) * 2^MaxExp units.
MaxExp == 12

RECURSIVE Pow2(_)
Pow2(n) == IF n = 0 THEN 1 ELSE 2 * Pow2(n - 1)

\* The Real 1.0, in units.
One == Pow2(FracBits)
MantLimit == Pow2(MantBits)

\* ------------------------------------------------------------------ Real
\* The one element of a singleton set.  A local value of the code
\* (const Real u = ...;) is written  Val({ e : u \in {...} }): it is computed
\* once, and e, written above the bindings, uses it by its name.
Val(S) == CHOOSE v \in S : TRUE

\* Not a number.
NaN == -(Pow2(30))

IsNaN(x) == x = NaN

Abs(x) == IF x < 0 THEN -x ELSE x

\* The largest finite Real (std::numeric_limits<Real>::max()).
MaxReal == (MantLimit - 1) * Pow2(MaxExp)

\* +infinity, above every finite Real; -Inf is -infinity.
Inf == Pow2(29)

IsInf(x) == Abs(x) = Inf

\* Inf with the sign of the product of x and y (neither is zero).
SignedInf(x, y) == IF (x < 0) = (y < 0) THEN Inf ELSE -Inf

\* A rounded result v as the Real it is stored as: infinite on overflow.
Overflow(v) ==
    Val({ IF w > MaxReal THEN Inf ELSE IF w < -MaxReal THEN -Inf ELSE w : w \in {v} })

\* n/d (n >= 0, d > 0) rounded to the nearest integer, ties to even.
RoundHalfEven(n, d) ==
    Val({ IF 2 * r < d THEN q
          ELSE IF 2 * r > d THEN q + 1
          ELSE IF q % 2 = 0 THEN q ELSE q + 1 :
          q \in {n \div d}, r \in {n % d} })

\* n/d (n >= 0, d > 0) rounded to MantBits significant bits, ties to even.
RECURSIVE RoundPos(_, _)
RoundPos(n, d) ==
    IF n < MantLimit * d THEN RoundHalfEven(n, d) ELSE 2 * RoundPos(n, 2 * d)

\* The Real nearest to the rational n/d (d > 0).
Round(n, d) ==
    Val({ IF m >= 0 THEN RoundPos(m, e) ELSE -RoundPos(-m, e) : m \in {n}, e \in {d} })

\* floor(sqrt(n)) for n >= 0.
RECURSIVE ISqrt(_)
ISqrt(n) ==
    IF n < 2 THEN n
    ELSE Val({ IF (r + 1) * (r + 1) <= n THEN r + 1 ELSE r : r \in {2 * ISqrt(n \div 4)} })

\* sqrt(n) (n >= 0) rounded to MantBits significant bits on the grid of step s.
RECURSIVE RoundSqrt(_, _)
RoundSqrt(n, s) ==
    Val({ IF q < MantLimit
          THEN Val({ IF 4 * n < m * m THEN q * s
                     ELSE IF 4 * n > m * m THEN (q + 1) * s
                     ELSE IF q % 2 = 0 THEN q * s ELSE (q + 1) * s :
                     m \in {(2 * q + 1) * s} })
          ELSE RoundSqrt(n, 2 * s) :
          q \in {ISqrt(n \div (s * s))} })

\* a + b
Add(a, b) ==
    Val({ IF IsNaN(x) \/ IsNaN(y) \/ (IsInf(x) /\ y = -x) THEN NaN
          ELSE IF IsInf(x) THEN x
          ELSE IF IsInf(y) THEN y
          ELSE Overflow(Round(x + y, 1)) :
          x \in {a}, y \in {b} })

\* a - b
Sub(a, b) ==
    Val({ IF IsNaN(x) \/ IsNaN(y) \/ (IsInf(x) /\ y = x) THEN NaN
          ELSE IF IsInf(x) THEN x
          ELSE IF IsInf(y) THEN -y
          ELSE Overflow(Round(x - y, 1)) :
          x \in {a}, y \in {b} })

\* -a
Neg(a) == Val({ IF IsNaN(x) THEN NaN ELSE -x : x \in {a} })

\* a * b
Mul(a, b) ==
    Val({ IF IsNaN(x) \/ IsNaN(y) THEN NaN
          ELSE IF IsInf(x) \/ IsInf(y)
          THEN IF x = 0 \/ y = 0 THEN NaN ELSE SignedInf(x, y)
          ELSE Overflow(Round(x * y, One)) :
          x \in {a}, y \in {b} })

\* a / b
Div(a, b) ==
    Val({ IF IsNaN(x) \/ IsNaN(y) \/ (IsInf(x) /\ IsInf(y)) \/ (x = 0 /\ y = 0) THEN NaN
          ELSE IF IsInf(x) THEN SignedInf(x, y)
          ELSE IF IsInf(y) THEN 0
          ELSE IF y = 0 THEN SignedInf(x, 1)
          ELSE IF y > 0 THEN Overflow(Round(x * One, y))
          ELSE Overflow(Round(-(x * One), -y)) :
          x \in {a}, y \in {b} })

\* std::sqrt(a)
Sqrt(a) ==
    Val({ IF IsNaN(x) \/ x < 0 THEN NaN
          ELSE IF x = Inf THEN Inf
          ELSE RoundSqrt(x * One, 1) : x \in {a} })

\* std::abs(a)
FAbs(a) == Val({ IF IsNaN(x) THEN NaN ELSE Abs(x) : x \in {a} })

\* a < b
Lt(a, b) == Val({ ~IsNaN(x) /\ ~IsNaN(y) /\ x < y : x \in {a}, y \in {b} })

\* a <= b
Le(a, b) == Val({ ~IsNaN(x) /\ ~IsNaN(y) /\ x <= y : x \in {a}, y \in {b} })

\* std::max(a, b): (a < b) ? b : a
Max(a, b) == Val({ IF Lt(x, y) THEN y ELSE x : x \in {a}, y \in {b} })

\* std::min(a, b): (b < a) ? b : a
Min(a, b) == Val({ IF Lt(y, x) THEN y ELSE x : x \in {a}, y \in {b} })

\* The Real nearest to the integer n (static_cast<Real>(n)).
FromInt(n) == Overflow(Round(n * One, 1))
\* The Real nearest to num/den, a literal of the source (Real{0.5}, Real{1.0 / 3.0}).
Lit(num, den) == Overflow(Round(num * One, den))

\* ------------------------------------------------------------------ core/types.hpp
\* ConservativeVars{rho, rho_u, E}
CV(r, m, e) == [rho |-> r, rho_u |-> m, E |-> e]
\* ConservativeVars{}: zero initialization
CVZero == CV(0, 0, 0)
\* PrimitiveVars{rho, u, p}
PV(r, v, q) == [rho |-> r, u |-> v, p |-> q]
PVZero == PV(0, 0, 0)

\* ConservativeVars::operator+
CVAdd(a, b) ==
    Val({ CV(Add(x.rho, y.rho), Add(x.rho_u, y.rho_u), Add(x.E, y.E)) : x \in {a}, y \in {b} })

\* ConservativeVars::operator-
CVSub(a, b) ==
    Val({ CV(Sub(x.rho, y.rho), Sub(x.rho_u, y.rho_u), Sub(x.E, y.E)) : x \in {a}, y \in {b} })

\* ConservativeVars::operator*(Real), and scalar * vars
CVScale(a, k) ==
    Val({ CV(Mul(x.rho, y), Mul(x.rho_u, y), Mul(x.E, y)) : x \in {a}, y \in {k} })

\* ConservativeVars::operator/(Real)
CVDiv(a, k) ==
    Val({ CV(Div(x.rho, y), Div(x.rho_u, y), Div(x.E, y)) : x \in {a}, y \in {k} })

\* PrimitiveVars::operator[]
PVGet(W, k) == IF k = 0 THEN W.rho ELSE IF k = 1 THEN W.u ELSE W.p

\* ------------------------------------------------------------------ eos/eos.hpp
\* IdealGas{gamma}
IdealGas(g) == [gamma |-> g]

\* IdealGas::pressure(const ConservativeVars&)
pressure(eos, U) ==
    Val({ Val({ Mul(Sub(eos.gamma, One), internal) :
                internal \in {Sub(U.E, Mul(Mul(Mul(Lit(1, 2), U.rho), u), u))} }) :
          u \in {Div(U.rho_u, U.rho)} })

\* IdealGas::sound_speed(Real rho, Real p)
sound_speed_rp(eos, rho, p) == Sqrt(Div(Mul(eos.gamma, p), rho))

\* IdealGas::sound_speed(const ConservativeVars&)
sound_speed(eos, U) == sound_speed_rp(eos, U.rho, pressure(eos, U))

\* IdealGas::internal_energy
internal_energy(eos, rho, p) == Div(p, Mul(Sub(eos.gamma, One), rho))

\* IdealGas::total_energy
total_energy(eos, W) ==
    Val({ Mul(W.rho, Add(e_internal, e_kinetic)) :
          e_internal \in {internal_energy(eos, W.rho, W.p)},
          e_kinetic \in {Mul(Mul(Lit(1, 2), W.u), W.u)} })

\* IdealGas::to_conservative
to_conservative(eos, W) ==
    Val({ CV(w.rho, Mul(w.rho, w.u), total_energy(eos, w)) : w \in {W} })

\* IdealGas::to_primitive
to_primitive(eos, U) ==
    Val({ PV(c.rho, Div(c.rho_u, c.rho), pressure(eos, c)) : c \in {U} })

\* IdealGas::flux(const ConservativeVars&): the physical flux
flux(eos, U) ==
    Val({ CV(U.rho_u, Add(Mul(U.rho_u, u), p), Mul(Add(U.E, p), u)) :
          u \in {Div(U.rho_u, U.rho)}, p \in {pressure(eos, U)} })

\* ------------------------------------------------------------------ mesh/mesh.hpp
\* Mesh1D::num_ghosts
num_ghosts == 2

\* Mesh1D::Mesh1D: the constructed mesh (ok), or the exception it throws.
Mesh1D(xmin, xmax, num_cells) ==
    IF num_cells <= 0 THEN [ok |-> FALSE, thrown |-> "invalid_argument"]
    ELSE IF Le(xmax, xmin) THEN [ok |-> FALSE, thrown |-> "invalid_argument"]
    ELSE [ok |-> TRUE, xmin |-> xmin, xmax |-> xmax, num_cells |-> num_cells,
          dx |-> Div(Sub(xmax, xmin), FromInt(num_cells))]

\* Mesh1D::total_cells
total_cells(mesh) == mesh.num_cells + 2 * num_ghosts
\* Mesh1D::first_interior
first_interior == num_ghosts
\* Mesh1D::last_interior
last_interior(mesh) == num_ghosts + mesh.num_cells - 1
\* Mesh1D::x: cell-centre coordinate
mesh_x(mesh, i) ==
    Add(mesh.xmin, Mul(Add(Sub(FromInt(i), FromInt(num_ghosts)), Lit(1, 2)), mesh.dx))

\* ------------------------------------------------------------------ boundary/boundary.hpp
\* A loop "for (g = 0; g < num_ghosts; ++g) U[dst(g)] = f(U[src(g)])" runs its
\* assignments in order: each reads the array the previous one left.
RECURSIVE TransmissiveLeftFrom(_, _)
TransmissiveLeftFrom(U, i) ==
    IF i < 0 THEN U
    ELSE TransmissiveLeftFrom([U EXCEPT ![i] = U[first_interior]], i - 1)

\* TransmissiveBoundary::apply_left
TransmissiveLeft(U, mesh) == TransmissiveLeftFrom(U, first_interior - 1)

RECURSIVE TransmissiveRightFrom(_, _, _)
TransmissiveRightFrom(U, mesh, i) ==
    IF i >= total_cells(mesh) THEN U
    ELSE TransmissiveRightFrom([U EXCEPT ![i] = U[last_interior(mesh)]], mesh, i + 1)

\* A right fill that stops after the first ghost cell.
TransmissiveRight_OneGhost(U, mesh) ==
    [U EXCEPT ![last_interior(mesh) + 1] = U[last_interior(mesh)]]

\* TransmissiveBoundary::apply_right
TransmissiveRight(U, mesh) == TransmissiveRightFrom(U, mesh, last_interior(mesh) + 1)

\* The reflected copy of a cell: momentum negated.
Reflect(c) == CV(c.rho, Neg(c.rho_u), c.E)

RECURSIVE ReflectiveLeftFrom(_, _)
ReflectiveLeftFrom(U, g) ==
    IF g >= num_ghosts THEN U
    ELSE ReflectiveLeftFrom(
             [U EXCEPT ![first_interior - 1 - g] = Reflect(U[first_interior + g])], g + 1)

\* A left wall fill that copies the interior cells without negating momentum.
ReflectiveLeft_NoNegate(U, mesh) ==
    [i \in DOMAIN U |->
        IF i < first_interior THEN U[2 * first_interior - 1 - i] ELSE U[i]]

\* ReflectiveBoundary::apply_left
ReflectiveLeft(U, mesh) == ReflectiveLeftFrom(U, 0)

RECURSIVE ReflectiveRightFrom(_, _, _)
ReflectiveRightFrom(U, mesh, g) ==
    IF g >= num_ghosts THEN U
    ELSE ReflectiveRightFrom(
             [U EXCEPT ![last_interior(mesh) + 1 + g] = Reflect(U[last_interior(mesh) - g])],
             mesh, g + 1)

\* ReflectiveBoundary::apply_right
ReflectiveRight(U, mesh) == ReflectiveRightFrom(U, mesh, 0)

RECURSIVE PeriodicLeftFrom(_, _, _)
PeriodicLeftFrom(U, mesh, g) ==
    IF g >= num_ghosts THEN U
    ELSE PeriodicLeftFrom(
             [U EXCEPT ![first_interior - 1 - g] = U[last_interior(mesh) - g]], mesh, g + 1)

\* A left fill that takes the right interior cells in mirrored order.
PeriodicLeft_Mirrored(U, mesh) ==
    [i \in DOMAIN U |->
        IF i < num_ghosts THEN U[last_interior(mesh) - i] ELSE U[i]]

\* PeriodicBoundary::apply_left
PeriodicLeft(U, mesh) == PeriodicLeftFrom(U, mesh, 0)

RECURSIVE PeriodicRightFrom(_, _, _)
PeriodicRightFrom(U, mesh, g) ==
    IF g >= num_ghosts THEN U
    ELSE PeriodicRightFrom(
             [U EXCEPT ![last_interior(mesh) + 1 + g] = U[first_interior + g]], mesh, g + 1)

\* A right fill that repeats the last interior cell instead of wrapping around.
PeriodicRight_NoWrap(U, mesh) ==
    [i \in DOMAIN U |->
        IF i > last_interior(mesh) THEN U[last_interior(mesh)] ELSE U[i]]

\* PeriodicBoundary::apply_right
PeriodicRight(U, mesh) == PeriodicRightFrom(U, mesh, 0)

\* apply_left_boundary: std::visit over the BoundaryVariant
apply_left_boundary(bc, U, mesh) ==
    CASE bc = "TransmissiveBoundary" -> TransmissiveLeft(U, mesh)
      [] bc = "ReflectiveBoundary" -> ReflectiveLeft(U, mesh)
      [] bc = "PeriodicBoundary" -> PeriodicLeft(U, mesh)

\* apply_right_boundary: std::visit over the BoundaryVariant
apply_right_boundary(bc, U, mesh) ==
    CASE bc = "TransmissiveBoundary" -> TransmissiveRight(U, mesh)
      [] bc = "ReflectiveBoundary" -> ReflectiveRight(U, mesh)
      [] bc = "PeriodicBoundary" -> PeriodicRight(U, mesh)

\* ------------------------------------------------------------------ core/constants.hpp
\* constants::epsilon (1e-14) is positive and smaller than the unit of the grid:
\* x < epsilon holds of the Reals x <= 0, and x > epsilon of the Reals x > 0.
LtEpsilon(x) == Lt(x, 1)
GtEpsilon(x) == Lt(0, x)

\* ------------------------------------------------------------------ flux/flux.hpp
\* LLFFlux::operator()
LLFFlux(U_L, U_R, eos) ==
    Val({ Val({ CVSub(CVScale(CVAdd(F_L, F_R), Lit(1, 2)),
                      CVScale(CVSub(U_R, U_L), Mul(Lit(1, 2), lambda_max))) :
                lambda_max \in {Max(Add(FAbs(u_L), c_L), Add(FAbs(u_R), c_R))} }) :
          F_L \in {flux(eos, U_L)},
          F_R \in {flux(eos, U_R)},
          u_L \in {Div(U_L.rho_u, U_L.rho)},
          u_R \in {Div(U_R.rho_u, U_R.rho)},
          c_L \in {sound_speed(eos, U_L)},
          c_R \in {sound_speed(eos, U_R)} })

\* RusanovFlux::operator()
RusanovFlux(U_L, U_R, eos) == LLFFlux(U_L, U_R, eos)

\* HLLFlux::operator()
HLLFlux(U_L, U_R, eos) ==
    Val({ Val({ Val({ IF Le(0, S_L) THEN F_L
                      ELSE IF Le(S_R, 0) THEN F_R
                      ELSE CVDiv(CVAdd(CVSub(CVScale(F_L, S_R), CVScale(F_R, S_L)),
                                       CVScale(CVSub(U_R, U_L), Mul(S_L, S_R))),
                                 Sub(S_R, S_L)) :
                      S_L \in {Min(Sub(u_L, c_L), Sub(u_R, c_R))},
                      S_R \in {Max(Add(u_L, c_L), Add(u_R, c_R))},
                      F_L \in {flux(eos, U_L)},
                      F_R \in {flux(eos, U_R)} }) :
                c_L \in {sound_speed_rp(eos, U_L.rho, p_L)},
                c_R \in {sound_speed_rp(eos, U_R.rho, p_R)} }) :
          u_L \in {Div(U_L.rho_u, U_L.rho)},
          p_L \in {pressure(eos, U_L)},
          u_R \in {Div(U_R.rho_u, U_R.rho)},
          p_R \in {pressure(eos, U_R)} })

\* HLLCFlux::operator(): the star state U_star_L (or U_star_R) of one side
HLLCStarState(rho, u, p, E, S, S_star) ==
    Val({ CV(coeff, Mul(coeff, S_star),
             Mul(coeff, Add(Div(E, rho),
                            Mul(Sub(S_star, u),
                                Add(S_star, Div(p, Mul(rho, Sub(S, u)))))))) :
          coeff \in {Div(Mul(rho, Sub(S, u)), Sub(S, S_star))} })

\* HLLCFlux::operator()
HLLCFlux(U_L, U_R, eos) ==
    Val({ Val({ Val({ Val({
        IF Le(0, S_L) THEN F_L
        ELSE IF Le(S_R, 0) THEN F_R
        ELSE IF Le(0, S_star)
        THEN Val({ CVAdd(F_L, CVScale(CVSub(U_star_L, U_L), S_L)) :
                   U_star_L \in {HLLCStarState(U_L.rho, u_L, p_L, U_L.E, S_L, S_star)} })
        ELSE Val({ CVAdd(F_R, CVScale(CVSub(U_star_R, U_R), S_R)) :
                   U_star_R \in {HLLCStarState(U_R.rho, u_R, p_R, U_R.E, S_R, S_star)} }) :
                            S_star \in {Div(Sub(Add(Sub(p_R, p_L),
                                                    Mul(Mul(U_L.rho, u_L), Sub(S_L, u_L))),
                                                Mul(Mul(U_R.rho, u_R), Sub(S_R, u_R))),
                                            Sub(Mul(U_L.rho, Sub(S_L, u_L)),
                                                Mul(U_R.rho, Sub(S_R, u_R))))},
                            F_L \in {flux(eos, U_L)},
                            F_R \in {flux(eos, U_R)} }) :
                      S_L \in {Min(Sub(u_L, c_L), Sub(u_R, c_R))},
                      S_R \in {Max(Add(u_L, c_L), Add(u_R, c_R))} }) :
                c_L \in {sound_speed_rp(eos, U_L.rho, p_L)},
                c_R \in {sound_speed_rp(eos, U_R.rho, p_R)} }) :
          u_L \in {Div(U_L.rho_u, U_L.rho)},
          p_L \in {pressure(eos, U_L)},
          u_R \in {Div(U_R.rho_u, U_R.rho)},
          p_R \in {pressure(eos, U_R)} })

\* The epsilon of MoversLEFlux::compute_dissipation (1e-6), taken as the unit of
\* the grid: the smallest positive Real of the model.
movers_epsilon == 1

\* std::max({a, b, c}) and std::min({a, b, c})
Max3(a, b, c) == Max(Max(a, b), c)
Min3(a, b, c) == Min(Min(a, b), c)

\* MoversLEFlux::max_min_eig_value: <<max, min>>
max_min_eig_value(ul, ur, cl, cr) ==
    Val({ << Max(Max3(L1r, L2r, L3r), Max3(L1l, L2l, L3l)),
             Min(Min3(L1r, L2r, L3r), Min3(L1l, L2l, L3l)) >> :
          L1r \in {FAbs(Add(ur, cr))},
          L1l \in {FAbs(Add(ul, cl))},
          L2r \in {FAbs(ur)},
          L2l \in {FAbs(ul)},
          L3r \in {FAbs(Sub(ur, cr))},
          L3l \in {FAbs(Sub(ul, cl))} })

\* MoversLEFlux::compute_dissipation
compute_dissipation(Fr, Fl, Ur, Ul, L_max, L_min) ==
    Val({ Val({ IF Lt(dF, movers_epsilon) THEN 0
                ELSE IF Lt(dU, movers_epsilon) THEN L_min
                ELSE IF Lt(S, movers_epsilon) THEN 0
                ELSE IF Le(L_max, S) THEN L_max
                ELSE IF Le(S, L_min) THEN L_min
                ELSE S :
                S \in {IF Lt(movers_epsilon, dU) /\ Lt(movers_epsilon, dF)
                       THEN FAbs(Div(Sub(Fr, Fl), Sub(Ur, Ul)))
                       ELSE L_min} }) :
          dF \in {FAbs(Sub(Fr, Fl))},
          dU \in {FAbs(Sub(Ur, Ul))} })

\* MoversLEFlux::operator(): the lambda flux_component
flux_component(flux_R, flux_L, U_R_var, U_L_var, L_max, L_min) ==
    Val({ Sub(Mul(Lit(1, 2), Add(flux_L, flux_R)),
              Mul(Mul(Lit(1, 2), diss), Sub(U_R_var, U_L_var))) :
          diss \in {compute_dissipation(flux_R, flux_L, U_R_var, U_L_var, L_max, L_min)} })

\* MoversLEFlux::operator()
MoversLEFlux(U_L, U_R, eos) ==
    Val({ Val({ CV(flux_component(F_R.rho, F_L.rho, U_R.rho, U_L.rho, L[1], L[2]),
                   flux_component(F_R.rho_u, F_L.rho_u, U_R.rho_u, U_L.rho_u, L[1], L[2]),
                   flux_component(F_R.E, F_L.E, U_R.E, U_L.E, L[1], L[2])) :
                L \in {max_min_eig_value(u_L, u_R, c_L, c_R)} }) :
          F_L \in {flux(eos, U_L)},
          F_R \in {flux(eos, U_R)},
          u_L \in {Div(U_L.rho_u, U_L.rho)},
          u_R \in {Div(U_R.rho_u, U_R.rho)},
          c_L \in {sound_speed(eos, U_L)},
          c_R \in {sound_speed(eos, U_R)} })

\* The alternatives of FluxVariant
FluxVariant == {"LLFFlux", "RusanovFlux", "HLLFlux", "HLLCFlux", "MoversLEFlux"}

\* compute_flux: std::visit over the FluxVariant
compute_flux(fluxv, U_L, U_R, eos) ==
    CASE fluxv = "LLFFlux" -> LLFFlux(U_L, U_R, eos)
      [] fluxv = "RusanovFlux" -> RusanovFlux(U_L, U_R, eos)
      [] fluxv = "HLLFlux" -> HLLFlux(U_L, U_R, eos)
      [] fluxv = "HLLCFlux" -> HLLCFlux(U_L, U_R, eos)
      [] fluxv = "MoversLEFlux" -> MoversLEFlux(U_L, U_R, eos)

\* ------------------------------------------------------------------ reconstruction/limiter.hpp
NoLimiter(r) == 0
MinmodLimiter(r) == Max(0, Min(One, r))
VanLeerLimiter(r) == Div(Add(r, FAbs(r)), Add(One, FAbs(r)))
SuperbeeLimiter(r) == Max3(0, Min(Mul(2 * One, r), One), Min(r, 2 * One))
MCLimiter(r) == Max(0, Min3(Mul(2 * One, r), Div(Add(One, r), 2 * One), 2 * One))

\* apply_limiter: std::visit over the LimiterVariant
apply_limiter(limiter, r) ==
    CASE limiter = "NoLimiter" -> NoLimiter(r)
      [] limiter = "MinmodLimiter" -> MinmodLimiter(r)
      [] limiter = "VanLeerLimiter" -> VanLeerLimiter(r)
      [] limiter = "SuperbeeLimiter" -> SuperbeeLimiter(r)
      [] limiter = "MCLimiter" -> MCLimiter(r)

\* ------------------------------------------------------------------ reconstruction/muscl.hpp
\* A left state whose slope ratio is taken without the guard against a zero
\* denominator.
muscl_left_NoGuard(limiter, w_im1, w_i, w_ip1) ==
    Val({ Add(w_i, Mul(Mul(Lit(1, 2), apply_limiter(limiter, Div(delta_L, delta_R_left))),
                       delta_R_left)) :
          delta_L \in {Sub(w_i, w_im1)},
          delta_R_left \in {Sub(w_ip1, w_i)} })

\* One component of the left state of MUSCLReconstruction::reconstruct
muscl_left(limiter, w_im1, w_i, w_ip1) ==
    Val({ Val({ Add(w_i, Mul(Mul(Lit(1, 2), apply_limiter(limiter, r_L)), delta_R_left)) :
                r_L \in {IF GtEpsilon(FAbs(delta_R_left))
                         THEN Div(delta_L, delta_R_left) ELSE 0} }) :
          delta_L \in {Sub(w_i, w_im1)},
          delta_R_left \in {Sub(w_ip1, w_i)} })

\* One component of the right state of MUSCLReconstruction::reconstruct
muscl_right(limiter, w_i, w_ip1, w_ip2) ==
    Val({ Val({ Sub(w_ip1, Mul(Mul(Lit(1, 2), apply_limiter(limiter, r_R)), delta_L_right)) :
                r_R \in {IF GtEpsilon(FAbs(delta_L_right))
                         THEN Div(delta_R, delta_L_right) ELSE 0} }) :
          delta_L_right \in {Sub(w_ip1, w_i)},
          delta_R \in {Sub(w_ip2, w_ip1)} })

\* MUSCLReconstruction::reconstruct: <<W_L, W_R>> at interface i+1/2
MUSCLReconstruct(W, i, limiter) ==
    << PV(muscl_left(limiter, W[i - 1].rho, W[i].rho, W[i + 1].rho),
          muscl_left(limiter, W[i - 1].u, W[i].u, W[i + 1].u),
          muscl_left(limiter, W[i - 1].p, W[i].p, W[i + 1].p)),
       PV(muscl_right(limiter, W[i].rho, W[i + 1].rho, W[i + 2].rho),
          muscl_right(limiter, W[i].u, W[i + 1].u, W[i + 2].u),
          muscl_right(limiter, W[i].p, W[i + 1].p, W[i + 2].p)) >>

\* FirstOrderReconstruction::reconstruct
FirstOrderReconstruct(W, i) == << W[i], W[i + 1] >>

\* ------------------------------------------------------------------ solver/solver.cpp
\* create_eos
create_eos(eoscfg) == IdealGas(eoscfg.gamma)

\* create_flux: the switch has no case for FluxScheme::MoversLE, which falls
\* through to the trailing return.
create_flux(scheme) ==
    CASE scheme = "LLF" -> "LLFFlux"
      [] scheme = "Rusanov" -> "RusanovFlux"
      [] scheme = "HLL" -> "HLLFlux"
      [] scheme = "HLLC" -> "HLLCFlux"
      [] OTHER -> "LLFFlux"

\* create_limiter
create_limiter(lim) ==
    CASE lim = "None" -> "NoLimiter"
      [] lim = "Minmod" -> "MinmodLimiter"
      [] lim = "VanLeer" -> "VanLeerLimiter"
      [] lim = "Superbee" -> "SuperbeeLimiter"
      [] lim = "MC" -> "MCLimiter"
      [] OTHER -> "VanLeerLimiter"

\* create_boundary
create_boundary(type) ==
    CASE type = "Transmissive" -> "TransmissiveBoundary"
      [] type = "Reflective" -> "ReflectiveBoundary"
      [] type = "Periodic" -> "PeriodicBoundary"
      [] OTHER -> "TransmissiveBoundary"

\* create_time_integrator
create_time_integrator(integ) ==
    CASE integ = "ExplicitEuler" -> "ExplicitEuler"
      [] integ = "SSPRK3" -> "SSPRK3"
      [] OTHER -> "SSPRK3"

\* The indices of an array of n cells.
Cells(n) == 0 .. (n - 1)

\* PiecewiseConstantIC::apply, one cell: the first region holding x, or the default.
RECURSIVE region_state(_, _, _)
region_state(regions, k, x) ==
    IF k > Len(regions) THEN PV(One, 0, One)
    ELSE IF Le(regions[k].x_left, x) /\ Lt(x, regions[k].x_right)
         THEN PV(regions[k].rho, regions[k].u, regions[k].p)
         ELSE region_state(regions, k + 1, x)

\* PiecewiseConstantIC::apply
PiecewiseConstantIC(regions, mesh, eos) ==
    [i \in Cells(total_cells(mesh)) |->
        Val({ to_conservative(eos, region_state(regions, 1, x)) : x \in {mesh_x(mesh, i)} })]

\* Solver::apply_boundaries, and the two fills of rhs_func
apply_boundaries(bcl, bcr, U, mesh) ==
    Val({ apply_right_boundary(bcr, V, mesh) : V \in {apply_left_boundary(bcl, U, mesh)} })

\* Solver::update_primitives, and the first loop of Solver::compute_rhs
primitives_of(eos, U) == [i \in DOMAIN U |-> to_primitive(eos, U[i])]

\* A loop that keeps the speed of the last cell instead of the largest one.
RECURSIVE max_speed_from_LastWins(_, _, _, _, _)
max_speed_from_LastWins(U, eos, i, last, max_speed) ==
    IF i > last THEN max_speed
    ELSE max_speed_from_LastWins(U, eos, i + 1, last,
                                 Add(FAbs(Div(U[i].rho_u, U[i].rho)), sound_speed(eos, U[i])))

\* The loop of Solver::compute_dt, from cell i on.
RECURSIVE max_speed_from(_, _, _, _, _)
max_speed_from(U, eos, i, last, max_speed) ==
    IF i > last THEN max_speed
    ELSE max_speed_from(U, eos, i + 1, last,
                        Max(max_speed, Add(FAbs(Div(U[i].rho_u, U[i].rho)),
                                           sound_speed(eos, U[i]))))

\* Solver::compute_dt
compute_dt(U, mesh, eos, cfl) ==
    Val({ Div(Mul(cfl, mesh.dx), IF LtEpsilon(max_speed) THEN One ELSE max_speed) :
          max_speed \in {max_speed_from(U, eos, first_interior, last_interior(mesh), 0)} })

\* Solver::run: "if (time_ + dt > t_final) dt = t_final - time_"
clamp_dt(time, dt, t_final) ==
    IF Lt(t_final, Add(time, dt)) THEN Sub(t_final, time) ELSE dt

\* Solver::compute_rhs: the interface states at interface i+1/2
interface_states(U, W, i, order, limiter, eos) ==
    IF order >= 2
    THEN Val({ << to_conservative(eos, WW[1]), to_conservative(eos, WW[2]) >> :
               WW \in {MUSCLReconstruct(W, i, limiter)} })
    ELSE << U[i], U[i + 1] >>

\* A flux loop that starts at the first interior cell: the flux of the left
\* face of the domain stays what an earlier evaluation left there.
compute_fluxes_SkipFirst(fluxes, U, W, mesh, order, limiter, fluxv, eos) ==
    [k \in DOMAIN fluxes |->
        IF k - 1 >= first_interior /\ k - 1 <= last_interior(mesh)
        THEN Val({ compute_flux(fluxv, LR[1], LR[2], eos) :
                   LR \in {interface_states(U, W, k - 1, order, limiter, eos)} })
        ELSE fluxes[k]]

\* Solver::compute_rhs: the flux loop, writing fluxes_[i + 1] for i = first-1 .. last
compute_fluxes(fluxes, U, W, mesh, order, limiter, fluxv, eos) ==
    [k \in DOMAIN fluxes |->
        IF k - 1 >= first_interior - 1 /\ k - 1 <= last_interior(mesh)
        THEN Val({ compute_flux(fluxv, LR[1], LR[2], eos) :
                   LR \in {interface_states(U, W, k - 1, order, limiter, eos)} })
        ELSE fluxes[k]]

\* A divergence with the two faces of a cell exchanged.
divergence_FacesSwapped(fluxes, mesh, n) ==
    Val({ [i \in Cells(n) |->
              IF i >= first_interior /\ i <= last_interior(mesh)
              THEN CVScale(CVSub(fluxes[i + 1], fluxes[i]), inv_dx)
              ELSE CVZero] :
          inv_dx \in {Div(One, mesh.dx)} })

\* Solver::compute_rhs: dU zeroed, then (F_left - F_right) * inv_dx on interior cells
divergence(fluxes, mesh, n) ==
    Val({ [i \in Cells(n) |->
              IF i >= first_interior /\ i <= last_interior(mesh)
              THEN CVScale(CVSub(fluxes[i], fluxes[i + 1]), inv_dx)
              ELSE CVZero] :
          inv_dx \in {Div(One, mesh.dx)} })

\* ------------------------------------------------------------------ time/time_integrator.hpp
\* An update that assigns the increment instead of adding it.
euler_update_Assign(U, dt, dU) == [i \in DOMAIN U |-> CVScale(dU[i], dt)]

\* ExplicitEuler::advance: U[i] += dt * dU[i]
euler_update(U, dt, dU) == [i \in DOMAIN U |-> CVAdd(U[i], CVScale(dU[i], dt))]

\* SSPRK3::advance, stage 1: U_1[i] = U_n[i] + dt * dU[i]
ssprk3_stage1(U_n, dt, dU) == [i \in DOMAIN U_n |-> CVAdd(U_n[i], CVScale(dU[i], dt))]

\* A stage 2 with the weights of U_n and U_1 exchanged.
ssprk3_stage2_Swapped(U_n, U_1, dt, dU) ==
    [i \in DOMAIN U_n |->
        CVAdd(CVAdd(CVScale(U_n[i], Lit(1, 4)), CVScale(U_1[i], Lit(3, 4))),
              CVScale(dU[i], Mul(Lit(1, 4), dt)))]

\* SSPRK3::advance, stage 2: U_2[i] = 0.75 * U_n[i] + 0.25 * U_1[i] + 0.25 * dt * dU[i]
ssprk3_stage2(U_n, U_1, dt, dU) ==
    [i \in DOMAIN U_n |->
        CVAdd(CVAdd(CVScale(U_n[i], Lit(3, 4)), CVScale(U_1[i], Lit(1, 4))),
              CVScale(dU[i], Mul(Lit(1, 4), dt)))]

\* SSPRK3::advance, stage 3: U[i] = 1/3 * U_n[i] + 2/3 * U_2[i] + 2/3 * dt * dU[i]
ssprk3_stage3(U_n, U_2, dt, dU) ==
    [i \in DOMAIN U_n |->
        CVAdd(CVAdd(CVScale(U_n[i], Lit(1, 3)), CVScale(U_2[i], Lit(2, 3))),
              CVScale(dU[i], Mul(Lit(2, 3), dt)))]

\* ------------------------------------------------------------------ configurations
\* The history counters count up to these bounds and then stay.
MaxSteps == 4

\* Region{x_left, x_right, rho, u, p}
Region(xl, xr, r, v, q) == [x_left |-> xl, x_right |-> xr, rho |-> r, u |-> v, p |-> q]

\* Config: mesh, time, numerics, eos, boundary, initial_condition (piecewise constant)
Config(xmin, xmax, n, cfl, tf, integ, order, fluxs, lim, gamma, bl, br, regions) ==
    [mesh |-> [xmin |-> xmin, xmax |-> xmax, num_cells |-> n],
     time |-> [cfl |-> cfl, final_time |-> tf, integrator |-> integ],
     numerics |-> [order |-> order, flux |-> fluxs, limiter |-> lim],
     eos |-> [gamma |-> gamma],
     boundary |-> [left |-> bl, right |-> br],
     initial_condition |-> [regions |-> regions]]

\* enum class FluxScheme
FluxScheme == {"LLF", "Rusanov", "HLL", "HLLC", "MoversLE"}
\* enum class Limiter
Limiter == {"None", "Minmod", "VanLeer", "Superbee", "MC"}
\* enum class TimeIntegrator
TimeIntegrator == {"ExplicitEuler", "SSPRK3"}
\* enum class BoundaryType
BoundaryType == {"Transmissive", "Reflective", "Periodic"}

\* A shock tube on [0, L]: (rho, u, p) = (1, 1/4, 1) left of L/2, (1/2, 0, 1/4) right.
ShockTube(L) ==
    << Region(0, L \div 2, One, One \div 4, One),
       Region(L \div 2, L, One \div 2, 0, One \div 4) >>

\* A pressure pulse on [0, L]: p = q in the middle half, 1 outside; rho = 1, u = 0.
Pulse(L, q) ==
    << Region(0, L \div 4, One, 0, One),
       Region(L \div 4, (3 * L) \div 4, One, 0, q),
       Region((3 * L) \div 4, L, One, 0, One) >>

\* gamma = 3/2
Gamma == (3 * One) \div 2

\* order 1 (the limiter is not used), and order 2 with every limiter
OrderLimiter == {<< 1, "None" >>} \cup ({2} \X Limiter)

\* Every flux scheme, order, limiter and integrator on a periodic domain.
NumericsConfigs ==
    { Config(0, 4 * One, n, One \div 2, One, integ, ol[1], fluxs, ol[2], Gamma,
             "Periodic", "Periodic", ShockTube(4 * One)) :
        n \in {2, 3}, integ \in TimeIntegrator, ol \in OrderLimiter, fluxs \in FluxScheme }

\* Every pair of boundary types, down to a single interior cell.
BoundaryConfigs ==
    { Config(0, 4 * One, n, One \div 2, One, integ, 2, "HLLC", "Minmod", Gamma,
             bl, br, ShockTube(4 * One)) :
        n \in {1, 2, 3}, integ \in TimeIntegrator, bl \in BoundaryType, br \in BoundaryType }

\* Meshes the constructor rejects, and meshes it accepts (the narrowest one is
\* one unit of the grid wide).
MeshConfigs ==
    { Config(xs[1], xs[2], n, One \div 2, One \div 4, "ExplicitEuler", 1, "LLF", "None", Gamma,
             "Transmissive", "Transmissive", ShockTube(One)) :
        n \in {-1, 0, 1, 2},
        xs \in {<< 0, One >>, << One, One >>, << One, 0 >>, << -One, One >>, << 0, 1 >>} }

\* CFL numbers and final times, the degenerate ones included.
TimeConfigs ==
    { Config(0, 4 * One, 2, cfl, tf, integ, 1, "LLF", "None", Gamma,
             "Transmissive", "Transmissive", ShockTube(4 * One)) :
        cfl \in {0, One \div 4, One \div 2, One},
        tf \in {-One, 0, One \div 4, One, 2 * One},
        integ \in TimeIntegrator }

\* A decaying pressure pulse: the time step grows from one step to the next.
PulseConfigs ==
    { Config(0, 33 * One, 3, One \div 2, tf, integ, 1, "LLF", "None", Gamma,
             "Transmissive", "Transmissive", Pulse(33 * One, 8 * One)) :
        tf \in {(59 * One) \div 16, 4 * One}, integ \in TimeIntegrator }

\* Two rarefactions on [0, L]: (rho, u, p) = (8, -2, 4) left of L/2, (8, 2, 4) right.
Rarefaction(L) ==
    << Region(0, L \div 2, 8 * One, -(2 * One), 4 * One),
       Region(L \div 2, L, 8 * One, 2 * One, 4 * One) >>

\* The gas is pulled apart in the middle of the tube: second order, CFL 7/8.
RarefactionConfigs ==
    { Config(0, 4 * One, 3, (7 * One) \div 8, One, "SSPRK3", 2, fluxs, "Superbee", Gamma,
             "Transmissive", "Transmissive", Rarefaction(4 * One)) :
        fluxs \in {"HLL", "HLLC"} }

\* A single interior cell that moves away from a reflective wall on its left.
SingleCellConfigs ==
    { Config(0, 4 * One, 1, One \div 2, One, integ, 2, "HLLC", "Minmod", Gamma,
             "Reflective", "Transmissive", Rarefaction(4 * One)) :
        integ \in TimeIntegrator }

Configs ==
    NumericsConfigs \cup BoundaryConfigs \cup MeshConfigs \cup TimeConfigs
        \cup PulseConfigs \cup RarefactionConfigs \cup SingleCellConfigs

\* ------------------------------------------------------------------ state
VARIABLES
    pc,                \* where the program is
    config_,           \* Solver::config_
    mesh_,             \* Solver::mesh_
    eos_,              \* Solver::eos_
    flux_,             \* Solver::flux_
    limiter_,          \* Solver::limiter_
    bc_left_,          \* Solver::bc_left_
    bc_right_,         \* Solver::bc_right_
    time_integrator_,  \* Solver::time_integrator_
    order_,            \* Solver::order_
    U_,                \* Solver::U_
    W_,                \* Solver::W_
    fluxes_,           \* Solver::fluxes_
    time_,             \* Solver::time_
    dt,                \* run(): dt of the current step
    step,              \* run(): step, counted up to MaxSteps
    U_n, U_1, U_2, dU, \* advance(): the stage arrays and the derivative array
    rhs_arg,           \* rhs_func: which array its U_in views ("U", "U_1", "U_2")
    ret,               \* where the running rhs_func returns to
    U_temp,            \* rhs_func: its boundary-filled copy of the input
    rhs_calls,         \* history: rhs_func invocations so far, up to 3 * MaxSteps
    rhs_started,       \* history: rhs_func invocations begun in the current step
    rhs_log,           \* history: input and output of each finished invocation of the step
    U_entry,           \* history: U_ when the current step's advance() was entered
    mass0,             \* history: total mass at construction
    call               \* a call of a function of the library on its own: arguments and result

vars == << pc, config_, mesh_, eos_, flux_, limiter_, bc_left_, bc_right_,
           time_integrator_, order_, U_, W_, fluxes_, time_, dt, step,
           U_n, U_1, U_2, dU, rhs_arg, ret, U_temp,
           rhs_calls, rhs_started, rhs_log, U_entry, mass0, call >>

\* An array that does not exist (yet, or any more).
NoArray == [i \in {} |-> CVZero]

\* std::vector<ConservativeVars>(n): n zero-initialized cells
ZeroArray(n) == [i \in Cells(n) |-> CVZero]

\* The sum of the density over the interior cells, times dx
\* (as tests/test_solver_integration.cpp computes the mass).
RECURSIVE density_sum(_, _, _, _)
density_sum(U, i, last, acc) ==
    IF i > last THEN acc ELSE density_sum(U, i + 1, last, Add(acc, U[i].rho))

total_mass(U, mesh) ==
    Mul(density_sum(U, first_interior, last_interior(mesh), 0), mesh.dx)

\* No function has been called on its own.
NoCall == [fn |-> "none"]

\* No Solver exists.
NoSolver ==
    /\ mesh_ = [ok |-> FALSE, thrown |-> "none"]
    /\ eos_ = IdealGas(0)
    /\ flux_ = "none"
    /\ limiter_ = "none"
    /\ bc_left_ = "none"
    /\ bc_right_ = "none"
    /\ time_integrator_ = "none"
    /\ order_ = 0
    /\ U_ = NoArray
    /\ W_ = NoArray
    /\ fluxes_ = NoArray
    /\ time_ = 0
    /\ dt = 0
    /\ step = 0
    /\ U_n = NoArray
    /\ U_1 = NoArray
    /\ U_2 = NoArray
    /\ dU = NoArray
    /\ rhs_arg = "none"
    /\ ret = "none"
    /\ U_temp = NoArray
    /\ rhs_calls = 0
    /\ rhs_started = 0
    /\ rhs_log = << >>
    /\ U_entry = NoArray
    /\ mass0 = 0

Init ==
    /\ config_ \in Configs
    /\ pc = "start"
    /\ call = NoCall
    /\ NoSolver

members == << mesh_, eos_, flux_, limiter_, bc_left_, bc_right_, time_integrator_, order_ >>
arrays == << U_, W_, fluxes_ >>
stage_arrays == << U_n, U_1, U_2 >>
history == << rhs_calls, rhs_started, rhs_log, U_entry, mass0 >>

\* ------------------------------------------------------------------ Solver::Solver
\* The mesh is the first member constructed from the configuration; if its
\* constructor throws, no Solver comes to exist.
ConstructThrows ==
    /\ pc = "start"
    /\ ~Mesh1D(config_.mesh.xmin, config_.mesh.xmax, config_.mesh.num_cells).ok
    /\ pc' = "threw"
    /\ UNCHANGED << config_, call, members, arrays, time_, dt, step, stage_arrays, dU,
                    rhs_arg, ret, U_temp, history >>

Construct ==
    /\ pc = "start"
    /\ \E mesh \in {Mesh1D(config_.mesh.xmin, config_.mesh.xmax, config_.mesh.num_cells)},
          eos \in {create_eos(config_.eos)},
          bcl \in {create_boundary(config_.boundary.left)},
          bcr \in {create_boundary(config_.boundary.right)} :
          /\ mesh.ok
          /\ mesh_' = mesh
          /\ eos_' = eos
          /\ flux_' = create_flux(config_.numerics.flux)
          /\ limiter_' = create_limiter(config_.numerics.limiter)
          /\ bc_left_' = bcl
          /\ bc_right_' = bcr
          /\ time_integrator_' = create_time_integrator(config_.time.integrator)
          /\ order_' = config_.numerics.order
          /\ \E U0 \in {PiecewiseConstantIC(config_.initial_condition.regions, mesh, eos)} :
                \E U \in {apply_boundaries(bcl, bcr, U0, mesh)} :
                   /\ U_' = U
                   /\ W_' = primitives_of(eos, U)
                   /\ mass0' = total_mass(U, mesh)
          /\ fluxes_' = ZeroArray(total_cells(mesh) + 1)
    /\ pc' = "constructed"
    /\ UNCHANGED << config_, call, time_, dt, step, stage_arrays, dU, rhs_arg, ret, U_temp,
                    rhs_calls, rhs_started, rhs_log, U_entry >>

\* ------------------------------------------------------------------ Solver::run
Run ==
    /\ pc = "constructed"
    /\ pc' = "loop"
    /\ UNCHANGED << config_, call, members, arrays, time_, dt, step, stage_arrays, dU,
                    rhs_arg, ret, U_temp, history >>

\* while (time_ < t_final): compute_dt(), the clamp, and the call of advance()
StepBegin ==
    /\ pc = "loop"
    /\ Lt(time_, config_.time.final_time)
    /\ \E d \in {compute_dt(U_, mesh_, eos_, config_.time.cfl)} :
          dt' = clamp_dt(time_, d, config_.time.final_time)
    /\ pc' = "advance"
    /\ U_entry' = U_
    /\ rhs_started' = 0
    /\ rhs_log' = << >>
    /\ UNCHANGED << config_, call, members, arrays, time_, step, stage_arrays, dU,
                    rhs_arg, ret, U_temp, rhs_calls, mass0 >>

\* the loop condition fails: run() returns
RunEnd ==
    /\ pc = "loop"
    /\ ~Lt(time_, config_.time.final_time)
    /\ pc' = "finished"
    /\ UNCHANGED << config_, call, members, arrays, time_, dt, step, stage_arrays, dU,
                    rhs_arg, ret, U_temp, history >>

\* A step that commits without reapplying the boundary conditions.
StepEnd_NoBoundaries ==
    /\ pc = "commit"
    /\ time_' = Add(time_, dt)
    /\ step' = IF step < MaxSteps THEN step + 1 ELSE step
    /\ pc' = "loop"
    /\ UNCHANGED << config_, call, members, arrays, dt, stage_arrays, dU,
                    rhs_arg, ret, U_temp, history >>

\* after advance(): apply_boundaries(); time_ += dt; ++step
StepEnd ==
    /\ pc = "commit"
    /\ U_' = apply_boundaries(bc_left_, bc_right_, U_, mesh_)
    /\ time_' = Add(time_, dt)
    /\ step' = IF step < MaxSteps THEN step + 1 ELSE step
    /\ pc' = "loop"
    /\ UNCHANGED << config_, call, members, W_, fluxes_, dt, stage_arrays, dU,
                    rhs_arg, ret, U_temp, history >>

\* ------------------------------------------------------------------ rhs_func
RhsPcs == {"rhs_fill", "rhs_prim", "rhs_flux", "rhs_div"}

\* The array the running rhs_func was given (a view, not a copy).
RhsInput ==
    CASE rhs_arg = "U" -> U_
      [] rhs_arg = "U_1" -> U_1
      [] rhs_arg = "U_2" -> U_2
      [] OTHER -> NoArray

\* A callback that fills only the left side of its copy.
rhs_fill_LeftOnly(U_in, bcl, bcr, mesh) == apply_left_boundary(bcl, U_in, mesh)

\* rhs_func: U_temp(U_in.begin(), U_in.end()); apply_left_boundary; apply_right_boundary
rhs_fill(U_in, bcl, bcr, mesh) == apply_boundaries(bcl, bcr, U_in, mesh)

\* A callback that fills the boundaries of its input in place before copying it.
RhsFill_InPlace ==
    /\ pc = "rhs_fill"
    /\ \E V \in {rhs_fill(RhsInput, bc_left_, bc_right_, mesh_)} :
          /\ U_temp' = V
          /\ U_' = IF rhs_arg = "U" THEN V ELSE U_
          /\ U_1' = IF rhs_arg = "U_1" THEN V ELSE U_1
          /\ U_2' = IF rhs_arg = "U_2" THEN V ELSE U_2
    /\ rhs_started' = rhs_started + 1
    /\ rhs_calls' = IF rhs_calls < 3 * MaxSteps THEN rhs_calls + 1 ELSE rhs_calls
    /\ pc' = "rhs_prim"
    /\ UNCHANGED << config_, call, members, W_, fluxes_, time_, dt, step, U_n, dU,
                    rhs_arg, ret, rhs_log, U_entry, mass0 >>

RhsFill ==
    /\ pc = "rhs_fill"
    /\ U_temp' = rhs_fill(RhsInput, bc_left_, bc_right_, mesh_)
    /\ rhs_started' = rhs_started + 1
    /\ rhs_calls' = IF rhs_calls < 3 * MaxSteps THEN rhs_calls + 1 ELSE rhs_calls
    /\ pc' = "rhs_prim"
    /\ UNCHANGED << config_, call, members, arrays, time_, dt, step, stage_arrays, dU,
                    rhs_arg, ret, rhs_log, U_entry, mass0 >>

\* compute_rhs: W_[i] = eos.to_primitive(U[i])
RhsPrimitives ==
    /\ pc = "rhs_prim"
    /\ W_' = primitives_of(eos_, U_temp)
    /\ pc' = "rhs_flux"
    /\ UNCHANGED << config_, call, members, U_, fluxes_, time_, dt, step, stage_arrays, dU,
                    rhs_arg, ret, U_temp, history >>

\* compute_rhs: the flux of every interface first-1 .. last
RhsFluxes ==
    /\ pc = "rhs_flux"
    /\ fluxes_' = compute_fluxes(fluxes_, U_temp, W_, mesh_, order_, limiter_, flux_, eos_)
    /\ pc' = "rhs_div"
    /\ UNCHANGED << config_, call, members, U_, W_, time_, dt, step, stage_arrays, dU,
                    rhs_arg, ret, U_temp, history >>

\* compute_rhs: the divergence into dU; rhs_func returns
RhsDivergence ==
    /\ pc = "rhs_div"
    /\ \E d \in {divergence(fluxes_, mesh_, total_cells(mesh_))} :
          /\ dU' = d
          /\ rhs_log' = Append(rhs_log, [input |-> RhsInput, output |-> d])
    /\ U_temp' = NoArray
    /\ pc' = ret
    /\ UNCHANGED << config_, call, members, arrays, time_, dt, step, stage_arrays,
                    rhs_arg, ret, rhs_calls, rhs_started, U_entry, mass0 >>

\* ------------------------------------------------------------------ advance
\* ExplicitEuler::advance: dU(n); rhs(U, dU)
EulerBegin ==
    /\ pc = "advance"
    /\ time_integrator_ = "ExplicitEuler"
    /\ dU' = ZeroArray(total_cells(mesh_))
    /\ rhs_arg' = "U"
    /\ ret' = "euler_update"
    /\ pc' = "rhs_fill"
    /\ UNCHANGED << config_, call, members, arrays, time_, dt, step, stage_arrays,
                    U_temp, history >>

\* ExplicitEuler::advance: the update loop; advance() returns
EulerUpdate ==
    /\ pc = "euler_update"
    /\ U_' = euler_update(U_, dt, dU)
    /\ dU' = NoArray
    /\ rhs_arg' = "none"
    /\ ret' = "none"
    /\ pc' = "commit"
    /\ UNCHANGED << config_, call, members, W_, fluxes_, time_, dt, step, stage_arrays,
                    U_temp, history >>

\* SSPRK3::advance: the stage arrays; std::copy(U, U_n); rhs(U, dU)
SSPRK3Begin ==
    /\ pc = "advance"
    /\ time_integrator_ = "SSPRK3"
    /\ U_n' = U_
    /\ U_1' = ZeroArray(total_cells(mesh_))
    /\ U_2' = ZeroArray(total_cells(mesh_))
    /\ dU' = ZeroArray(total_cells(mesh_))
    /\ rhs_arg' = "U"
    /\ ret' = "ssprk3_stage1"
    /\ pc' = "rhs_fill"
    /\ UNCHANGED << config_, call, members, arrays, time_, dt, step, U_temp, history >>

\* A stage 1 that goes on to stage 2 with the derivative of U, without a
\* second evaluation.
SSPRK3Stage1_NoRhs ==
    /\ pc = "ssprk3_stage1"
    /\ U_1' = ssprk3_stage1(U_n, dt, dU)
    /\ pc' = "ssprk3_stage2"
    /\ UNCHANGED << config_, call, members, arrays, time_, dt, step, U_n, U_2, dU,
                    rhs_arg, ret, U_temp, history >>

\* SSPRK3::advance: stage 1, then rhs(U_1, dU)
SSPRK3Stage1 ==
    /\ pc = "ssprk3_stage1"
    /\ U_1' = ssprk3_stage1(U_n, dt, dU)
    /\ rhs_arg' = "U_1"
    /\ ret' = "ssprk3_stage2"
    /\ pc' = "rhs_fill"
    /\ UNCHANGED << config_, call, members, arrays, time_, dt, step, U_n, U_2, dU,
                    U_temp, history >>

\* SSPRK3::advance: stage 2, then rhs(U_2, dU)
SSPRK3Stage2 ==
    /\ pc = "ssprk3_stage2"
    /\ U_2' = ssprk3_stage2(U_n, U_1, dt, dU)
    /\ rhs_arg' = "U_2"
    /\ ret' = "ssprk3_stage3"
    /\ pc' = "rhs_fill"
    /\ UNCHANGED << config_, call, members, arrays, time_, dt, step, U_n, U_1, dU,
                    U_temp, history >>

\* SSPRK3::advance: stage 3 into U; advance() returns
SSPRK3Stage3 ==
    /\ pc = "ssprk3_stage3"
    /\ U_' = ssprk3_stage3(U_n, U_2, dt, dU)
    /\ U_n' = NoArray
    /\ U_1' = NoArray
    /\ U_2' = NoArray
    /\ dU' = NoArray
    /\ rhs_arg' = "none"
    /\ ret' = "none"
    /\ pc' = "commit"
    /\ UNCHANGED << config_, call, members, W_, fluxes_, time_, dt, step, U_temp, history >>

Next ==
    \/ ConstructThrows
    \/ Construct
    \/ Run
    \/ StepBegin
    \/ RunEnd
    \/ StepEnd
    \/ RhsFill
    \/ RhsPrimitives
    \/ RhsFluxes
    \/ RhsDivergence
    \/ EulerBegin
    \/ EulerUpdate
    \/ SSPRK3Begin
    \/ SSPRK3Stage1
    \/ SSPRK3Stage2
    \/ SSPRK3Stage3

Spec == Init /\ [][Next]_vars

\* The program runs on while it has a step to take.
LiveSpec == Init /\ [][Next]_vars /\ WF_vars(Next)

\* ------------------------------------------------------------------ the library called on its own
\* The functions of the library are also called without a Solver, as the unit
\* tests of the repository call them: one call, on arguments drawn from the
\* sets below, with its result kept in call.

\* Every finite Real: a significand of at most MantBits bits at every exponent.
FiniteReals ==
    { sign * m * Pow2(e) : sign \in {-1, 1}, m \in 0 .. (MantLimit - 1), e \in 0 .. MaxExp }

\* The variables of the Solver and of run().
solver_vars ==
    << config_, members, arrays, time_, dt, step, stage_arrays, dU, rhs_arg, ret,
       U_temp, history >>

UnitInit ==
    /\ config_ = [test |-> "unit"]
    /\ pc = "unit"
    /\ call = NoCall
    /\ NoSolver

\* apply_limiter(limiter, r) for each limiter and each finite r
CallLimiter ==
    /\ pc = "unit"
    /\ \E lim \in Limiter, r \in FiniteReals :
          call' = [fn |-> "apply_limiter", limiter |-> lim, r |-> r,
                   phi |-> apply_limiter(create_limiter(lim), r)]
    /\ pc' = "called"
    /\ UNCHANGED solver_vars

\* Finite Reals of every magnitude: the shortest and the longest significands
\* at every exponent.
SampleReals ==
    { sign * m * Pow2(e) : sign \in {-1, 1}, m \in {0, 1, 3, MantLimit - 1}, e \in 0 .. MaxExp }

\* Primitive fields of six cells: the constant fields of these values, and the
\* fields that take one of two states in each cell.
ConstantFields == { [k \in 0 .. 5 |-> PV(a, -a, a)] : a \in SampleReals }
TwoStateFields == [0 .. 5 -> {PV(One, 0, One), PV(One \div 2, One \div 4, One \div 8)}]
\* Fields whose velocity is the largest finite Real with either sign in each
\* cell, so that the difference of two neighbours can overflow.
OverflowFields == [0 .. 5 -> {PV(One, MaxReal, One), PV(One, -MaxReal, One)}]
\* Fields of positive density and pressure that fall steeply to one unit of the
\* grid, or rise steeply from it: the difference of the cell of value 4 and its
\* neighbour of one unit is rounded.
SteepFields ==
    { [k \in 0 .. 5 |-> PV(s[k + 1], 0, s[k + 1])] :
        s \in { << 12 * One, 4 * One, 1, 1, 1, 1 >>,
                << 1, 1, 1, 1, 4 * One, 12 * One >> } }

\* MUSCLReconstruction::reconstruct(W, i, limiter) at each interface with a full
\* stencil
CallReconstruct ==
    /\ pc = "unit"
    /\ \E lim \in Limiter, i \in 1 .. 3,
             W \in ConstantFields \cup TwoStateFields \cup OverflowFields
                       \cup SteepFields :
          \E s \in {MUSCLReconstruct(W, i, create_limiter(lim))} :
              call' = [fn |-> "reconstruct", limiter |-> lim, W |-> W, i |-> i,
                       W_L |-> s[1], W_R |-> s[2]]
    /\ pc' = "called"
    /\ UNCHANGED solver_vars

\* Conservative states: densities from one unit of the grid up to 1, momenta of
\* both signs, energies up to the size where the sound speed overflows.
SampleStates ==
    { CV(r, m, e) : r \in {1, One \div 2, One},
                    m \in {-One, 0, One \div 2, 2 * One},
                    e \in {One, 3 * One, 8 * One, 400 * One} }

\* compute_flux(flux, U_L, U_R, eos) for each scheme, on equal and on different
\* left and right states
CallFlux ==
    /\ pc = "unit"
    /\ \E fluxv \in FluxVariant, U_L \in SampleStates :
          \E U_R \in {U_L, CV(One \div 2, 0, 2 * One)} :
              call' = [fn |-> "compute_flux", flux |-> fluxv, U_L |-> U_L, U_R |-> U_R,
                       eos |-> IdealGas(Gamma),
                       F |-> compute_flux(fluxv, U_L, U_R, IdealGas(Gamma))]
    /\ pc' = "called"
    /\ UNCHANGED solver_vars

\* Primitive states with positive density and pressure, slow and fast, and
\* the ratios of specific heats the round trip is called with.
SamplePrimitives ==
    { PV(r, v, q) : r \in {One \div 4, One, 3 * One},
                    v \in {-(8 * One), 0, One \div 2, One, 20 * One},
                    q \in {One \div 8, One, 5 * One} }

SampleGammas == {Gamma, 2 * One}

\* tests/test_eos.cpp ConservativePrimitiveRoundTrip:
\* W = eos.to_primitive(eos.to_conservative(W_orig))
CallRoundTrip ==
    /\ pc = "unit"
    /\ \E g \in SampleGammas, W \in SamplePrimitives :
         \E U \in {to_conservative(IdealGas(g), W)} :
            call' = [fn |-> "round_trip", eos |-> IdealGas(g), W_orig |-> W,
                     U |-> U, W |-> to_primitive(IdealGas(g), U)]
    /\ pc' = "called"
    /\ UNCHANGED solver_vars

\* Flux and state values around the epsilon of MoversLEFlux, and eigenvalue
\* bounds L_min <= L_max.
SampleJumpValues == {-(2 * One), -2, -1, 0, 1, 2, 3, One \div 2, One, 3 * One}
SampleEigenBounds ==
    { b \in {0, One \div 8, One \div 2, One, 4 * One} \X {0, One \div 8, One \div 2, One, 4 * One} :
        b[2] <= b[1] }

\* MoversLEFlux::operator(): one call of compute_dissipation by flux_component
CallDissipation ==
    /\ pc = "unit"
    /\ \E Fr \in SampleJumpValues, Ur \in SampleJumpValues, Fl \in {0, 1}, Ul \in {0, -1},
          L \in SampleEigenBounds :
            call' = [fn |-> "compute_dissipation", Fr |-> Fr, Fl |-> Fl, Ur |-> Ur, Ul |-> Ul,
                     L_max |-> L[1], L_min |-> L[2],
                     diss |-> compute_dissipation(Fr, Fl, Ur, Ul, L[1], L[2])]
    /\ pc' = "called"
    /\ UNCHANGED solver_vars

UnitNext ==
    \/ CallLimiter
    \/ CallReconstruct
    \/ CallFlux
    \/ CallRoundTrip
    \/ CallDissipation

UnitSpec == UnitInit /\ [][UnitNext]_vars

\* ================================================================== properties
\* The run has a Solver: construction succeeded.
Constructed == pc \notin {"start", "threw"}

PeriodicBoth == bc_left_ = "PeriodicBoundary" /\ bc_right_ = "PeriodicBoundary"

\* ------------------------------------------------------------------ C1
\* The flux variant that carries the name of a FluxScheme enumerator.
SchemeNamed(scheme) ==
    CASE scheme = "LLF" -> "LLFFlux"
      [] scheme = "Rusanov" -> "RusanovFlux"
      [] scheme = "HLL" -> "HLLFlux"
      [] scheme = "HLLC" -> "HLLCFlux"
      [] scheme = "MoversLE" -> "MoversLEFlux"

\* C1: for every flux scheme of the configuration, the Solver evaluates every
\* interface flux with the scheme of that name: once compute_rhs has filled the
\* flux buffer, each interface flux is the one the configured scheme gives on that
\* interface's reconstructed states.
C1_EveryFluxByConfiguredScheme ==
    pc = "rhs_div" =>
        \A i \in first_interior .. (last_interior(mesh_) + 1) :
            LET s == interface_states(U_temp, W_, i - 1, order_, limiter_, eos_)
            IN  fluxes_[i] = compute_flux(SchemeNamed(config_.numerics.flux), s[1], s[2], eos_)

\* ------------------------------------------------------------------ C2
\* The configuration asks for a mesh the constructor must reject.
BadMesh ==
    \/ config_.mesh.num_cells <= 0
    \/ Le(config_.mesh.xmax, config_.mesh.xmin)

\* No part of a Solver exists.
NothingConstructed ==
    /\ ~mesh_.ok
    /\ flux_ = "none" /\ limiter_ = "none" /\ bc_left_ = "none" /\ bc_right_ = "none"
    /\ time_integrator_ = "none"
    /\ U_ = NoArray /\ W_ = NoArray /\ fluxes_ = NoArray

\* C2: a configuration with num_cells <= 0 or xmax <= xmin ends construction with
\* invalid_argument and no part of a Solver constructed; any other configuration
\* is constructed, with dx > 0.
C2_MeshValidation ==
    pc /= "start" =>
        IF BadMesh
        THEN pc = "threw" /\ NothingConstructed
        ELSE pc /= "threw" /\ mesh_.ok /\ Lt(0, mesh_.dx)

\* ------------------------------------------------------------------ C3
\* C3: for final_time > 0 the simulated time never exceeds final_time, and it
\* equals final_time when run() has returned.
C3_TimeNeverPastFinalTime ==
    Lt(0, config_.time.final_time) =>
        /\ Le(time_, config_.time.final_time)
        /\ pc = "finished" => time_ = config_.time.final_time

\* ------------------------------------------------------------------ C4
\* C4: from every configuration a Solver can be constructed from, run() reaches
\* its end (construction that throws ends the program as well).
C4_RunTerminates == <>(pc \in {"finished", "threw"})

\* ------------------------------------------------------------------ C5
\* The two end faces of the domain carry the same flux.
EndFaceFluxesEqual == fluxes_[first_interior] = fluxes_[last_interior(mesh_) + 1]

RhsKeepsInputAndState ==
    pc \in RhsPcs =>
        /\ RhsInput' = RhsInput
        /\ U_' = U_
        /\ stage_arrays' = stage_arrays
        /\ << time_, dt, step >>' = << time_, dt, step >>
        /\ members' = members
        /\ config_' = config_

\* C6: an evaluation of the right-hand-side callback leaves its input array and
\* the committed state as they were; of the Solver it changes only the derivative
\* array and the scratch buffers.
C6_RhsLeavesInputAndStateUnchanged == [][RhsKeepsInputAndState]_vars

\* The callback has filled the ghost cells of the copy of a stage array, and
\* the copy differs from the stage array it was made from.
C6_Witness ==
    /\ pc = "rhs_prim"
    /\ rhs_arg = "U_1"
    /\ U_temp /= U_1

\* ------------------------------------------------------------------ C7
\* Evaluations of the right-hand side in one step of the configured integrator.
PerStep == IF config_.time.integrator = "SSPRK3" THEN 3 ELSE 1

\* C7: a step evaluates the right-hand side once (ExplicitEuler) or three times
\* (SSPRK3), each evaluation ending before the next begins; after k steps it has
\* been evaluated k or 3k times.
C7_RhsCallsPerStep ==
    Constructed =>
        /\ rhs_started - Len(rhs_log) =
              IF pc \in {"rhs_prim", "rhs_flux", "rhs_div"} THEN 1 ELSE 0
        /\ pc = "commit" => rhs_started = PerStep /\ Len(rhs_log) = PerStep
        /\ pc = "loop" /\ step < MaxSteps => rhs_calls = PerStep * step

\* Two SSPRK3 steps done, six evaluations counted.
C7_Witness ==
    /\ pc = "loop"
    /\ step = 2
    /\ time_integrator_ = "SSPRK3"
    /\ rhs_calls = 6

\* ------------------------------------------------------------------ C8
\* Where an SSPRK3 step is between its entry and its last assignment.
InsideStep == RhsPcs \cup {"ssprk3_stage1", "ssprk3_stage2", "ssprk3_stage3"}

\* C8: an SSPRK3 step computes U1 = Un + dt L(Un), U2 = 3/4 Un + 1/4 U1 +
\* 1/4 dt L(U1) and U = 1/3 Un + 2/3 U2 + 2/3 dt L(U2), in this order, where Un is
\* U at entry, which stays in U until the last stage assigns it.
C8_SSPRK3Stages ==
    time_integrator_ = "SSPRK3" =>
        /\ pc \in InsideStep => U_ = U_entry /\ U_n = U_entry
        /\ pc = "commit" =>
            LET L1 == rhs_log[1].output
                L2 == rhs_log[2].output
                L3 == rhs_log[3].output
                S1 == [i \in DOMAIN U_entry |->
                        CVAdd(U_entry[i], CVScale(L1[i], dt))]
                S2 == [i \in DOMAIN U_entry |->
                        CVAdd(CVAdd(CVScale(U_entry[i], Lit(3, 4)),
                                    CVScale(S1[i], Lit(1, 4))),
                              CVScale(L2[i], Mul(Lit(1, 4), dt)))]
                S3 == [i \in DOMAIN U_entry |->
                        CVAdd(CVAdd(CVScale(U_entry[i], Lit(1, 3)),
                                    CVScale(S2[i], Lit(2, 3))),
                              CVScale(L3[i], Mul(Lit(2, 3), dt)))]
            IN  /\ Len(rhs_log) = 3
                /\ rhs_log[1].input = U_entry
                /\ rhs_log[2].input = S1
                /\ rhs_log[3].input = S2
                /\ U_ = S3

\* An SSPRK3 step has assigned U, and its three stages differ from each other.
C8_Witness ==
    /\ pc = "commit"
    /\ time_integrator_ = "SSPRK3"
    /\ Len(rhs_log) = 3
    /\ rhs_log[2].input /= rhs_log[1].input
    /\ rhs_log[3].input /= rhs_log[2].input
    /\ U_ /= rhs_log[3].input

\* ------------------------------------------------------------------ C9
\* C9: an ExplicitEuler step evaluates the right-hand side once, on U as it is
\* at entry, and then replaces every entry U[i] by U[i] + dt * rhs(U)[i].
C9_ExplicitEulerStep ==
    time_integrator_ = "ExplicitEuler" =>
        /\ pc \in RhsPcs \cup {"euler_update"} => U_ = U_entry
        /\ pc = "commit" =>
            /\ Len(rhs_log) = 1
            /\ rhs_log[1].input = U_entry
            /\ U_ = [i \in DOMAIN U_entry |->
                        CVAdd(U_entry[i], CVScale(rhs_log[1].output[i], dt))]

\* An ExplicitEuler step has changed U.
C9_Witness ==
    /\ pc = "commit"
    /\ time_integrator_ = "ExplicitEuler"
    /\ Len(rhs_log) = 1
    /\ U_ /= U_entry

\* ------------------------------------------------------------------ C10
\* Every ghost cell of U holds the interior cell one period away.
PeriodicImage(U, N) ==
    /\ \A i \in 0 .. (num_ghosts - 1) : U[i] = U[i + N]
    /\ \A i \in (num_ghosts + N) .. (N + 2 * num_ghosts - 1) : U[i] = U[i - N]

\* C10: after the periodic fill of both sides of an array with N >= 2 interior
\* cells, left ghost i holds cell i + N and right ghost i holds cell i - N, in
\* all three components.
C10_PeriodicGhostsWrapAround ==
    PeriodicBoth /\ mesh_.num_cells >= 2 =>
        /\ pc = "rhs_prim" => PeriodicImage(U_temp, mesh_.num_cells)
        /\ pc \in {"constructed", "loop", "finished"} =>
              PeriodicImage(U_, mesh_.num_cells)

\* The fill has replaced stale ghost cells of a stage array with three interior
\* cells that differ from each other.
C10_Witness ==
    /\ PeriodicBoth
    /\ mesh_.num_cells = 3
    /\ pc = "rhs_prim"
    /\ rhs_arg = "U_2"
    /\ U_temp[0] /= U_2[0]
    /\ U_temp[last_interior(mesh_) + 1] /= U_2[last_interior(mesh_) + 1]
    /\ U_temp[first_interior] /= U_temp[first_interior + 1]

\* ------------------------------------------------------------------ C11
\* The ghost cell is the mirror image of the interior cell: same density and
\* energy, negated momentum.
IsMirrorOf(ghost, interior) ==
    /\ ghost.rho = interior.rho
    /\ ghost.rho_u = Neg(interior.rho_u)
    /\ ghost.E = interior.E

\* The ghost cells of the sides of U with a reflective rule are mirror images.
ReflectiveImage(U) ==
    /\ bc_left_ = "ReflectiveBoundary" =>
          \A g \in 0 .. (num_ghosts - 1) :
              IsMirrorOf(U[first_interior - 1 - g], U[first_interior + g])
    /\ bc_right_ = "ReflectiveBoundary" =>
          \A g \in 0 .. (num_ghosts - 1) :
              IsMirrorOf(U[last_interior(mesh_) + 1 + g], U[last_interior(mesh_) - g])

\* C11: after the reflective fill of a side of an array with N >= 2 interior
\* cells, for each offset g in {0, 1} the ghost cell g places outside the boundary
\* has the density and energy of the interior cell g places inside it and the
\* negated momentum of that cell.
C11_ReflectiveGhostsMirror ==
    Constructed /\ mesh_.num_cells >= 2 =>
        /\ pc = "rhs_prim" => ReflectiveImage(U_temp)
        /\ pc \in {"constructed", "loop", "finished"} => ReflectiveImage(U_)

\* Both walls reflective; the fill has replaced stale ghost cells of a stage
\* array on both sides with cells of non-zero momentum.
C11_Witness ==
    /\ bc_left_ = "ReflectiveBoundary" /\ bc_right_ = "ReflectiveBoundary"
    /\ mesh_.num_cells = 3
    /\ pc = "rhs_prim"
    /\ rhs_arg = "U_1"
    /\ U_temp[0] /= U_1[0]
    /\ U_temp[last_interior(mesh_) + 2] /= U_1[last_interior(mesh_) + 2]
    /\ U_temp[first_interior + 1].rho_u /= 0
    /\ U_temp[last_interior(mesh_) - 1].rho_u /= 0

\* ------------------------------------------------------------------ C12
\* The ghost cells of the sides of U with a transmissive rule equal the interior
\* cell next to that boundary.
TransmissiveImage(U) ==
    /\ bc_left_ = "TransmissiveBoundary" =>
          \A i \in 0 .. (first_interior - 1) : U[i] = U[first_interior]
    /\ bc_right_ = "TransmissiveBoundary" =>
          \A i \in (last_interior(mesh_) + 1) .. (total_cells(mesh_) - 1) :
              U[i] = U[last_interior(mesh_)]

\* C12: after the transmissive fill of a side, every ghost cell of that side
\* equals, in all three components, the interior cell next to that boundary, for
\* every N >= 1.
C12_TransmissiveGhostsCopy ==
    Constructed /\ mesh_.num_cells >= 1 /\ mesh_.ok =>
        /\ pc = "rhs_prim" => TransmissiveImage(U_temp)
        /\ pc \in {"constructed", "loop", "finished"} => TransmissiveImage(U_)

\* Both sides transmissive on a single interior cell; the fill at construction
\* has replaced, in every ghost cell, the state the initial condition put there.
C12_Witness ==
    /\ bc_left_ = "TransmissiveBoundary" /\ bc_right_ = "TransmissiveBoundary"
    /\ mesh_.num_cells = 1
    /\ pc = "constructed"
    /\ \A i \in {0, 1, 3, 4} :
          U_[i] /= PiecewiseConstantIC(config_.initial_condition.regions, mesh_, eos_)[i]

\* ------------------------------------------------------------------ C13
\* C13: every limiter (None, Minmod, Van Leer, Superbee, MC) gives, for every
\* r >= 0, a value phi(r) with 0 <= phi(r) <= min(2r, 2).
C13_LimitersInTVDRegion ==
    call.fn = "apply_limiter" /\ call.r >= 0 =>
        /\ ~IsNaN(call.phi)
        /\ 0 <= call.phi
        /\ call.phi <= 2 * call.r
        /\ call.phi <= 2 * One

\* ------------------------------------------------------------------ C14
\* C14: for a spatially constant primitive field, MUSCLReconstruction::reconstruct
\* returns W_L = W[i] and W_R = W[i+1] in every component, for every limiter and
\* every interface with a full stencil.
C14_UniformFieldUnchanged ==
    call.fn = "reconstruct" /\ (\A k \in DOMAIN call.W : call.W[k] = call.W[0]) =>
        /\ call.W_L = call.W[call.i]
        /\ call.W_R = call.W[call.i + 1]

\* A constant field of non-zero values reconstructed with the Van Leer limiter.
C14_Witness ==
    /\ call.fn = "reconstruct"
    /\ call.limiter = "VanLeer"
    /\ \A k \in DOMAIN call.W : call.W[k] = call.W[0]
    /\ call.W[0].rho = 3 * One
    /\ call.W_L.rho = 3 * One /\ call.W_R.u = -3 * One

\* ------------------------------------------------------------------ C15
\* C15: for a state U with positive density and pressure, each of the LLF,
\* Rusanov, HLL and HLLC fluxes evaluated with U_L = U_R = U equals the physical
\* flux of U.
C15_FluxConsistency ==
    /\ call.fn = "compute_flux"
    /\ call.flux \in {"LLFFlux", "RusanovFlux", "HLLFlux", "HLLCFlux"}
    /\ call.U_L = call.U_R
    /\ Lt(0, call.U_L.rho)
    /\ Lt(0, pressure(call.eos, call.U_L))
    => call.F = flux(call.eos, call.U_L)

\* C16: for every primitive state W with positive density and pressure and
\* every gamma > 1, to_primitive(to_conservative(W)) equals W in density,
\* velocity and pressure.
C16_RoundTrip ==
    /\ call.fn = "round_trip"
    /\ Lt(0, call.W_orig.rho)
    /\ Lt(0, call.W_orig.p)
    /\ Lt(One, call.eos.gamma)
    => /\ call.W.rho = call.W_orig.rho
       /\ call.W.u = call.W_orig.u
       /\ call.W.p = call.W_orig.p

\* The initial condition has positive density and pressure in every region.
PositiveInitialCondition ==
    \A k \in DOMAIN config_.initial_condition.regions :
        /\ Lt(0, config_.initial_condition.regions[k].rho)
        /\ Lt(0, config_.initial_condition.regions[k].p)

\* Every interior cell of solution() has positive density, and positive
\* pressure in Solver::to_primitive().
InteriorPositive ==
    \A i \in first_interior .. last_interior(mesh_) :
        /\ Lt(0, U_[i].rho)
        /\ Lt(0, to_primitive(eos_, U_[i]).p)

\* C17: for a shock-tube initial condition with positive density and pressure
\* everywhere, after run() to a short final time every interior cell of the
\* solution has strictly positive density and strictly positive pressure.
C17_PositivityPreserved ==
    pc = "finished" /\ PositiveInitialCondition => InteriorPositive

\* ------------------------------------------------------------------ C18
\* The ghost cells of the sides of U with a periodic rule hold the interior cell
\* one domain length away.
PeriodicSidesImage(U) ==
    /\ bc_left_ = "PeriodicBoundary" =>
          \A g \in 0 .. (num_ghosts - 1) :
              U[first_interior - 1 - g] = U[last_interior(mesh_) - g]
    /\ bc_right_ = "PeriodicBoundary" =>
          \A g \in 0 .. (num_ghosts - 1) :
              U[last_interior(mesh_) + 1 + g] = U[first_interior + g]

\* run() is between two steps, or has not started, or has returned.
BetweenSteps == pc \in {"constructed", "loop", "finished"}

\* C18: on a mesh with N >= 2, after construction and after every completed
\* step of run(), hence also at the end, every ghost cell of the committed
\* state holds exactly the value that the boundary rule of its side prescribes
\* from the current interior cells.
C18_CommittedGhostsFollowBoundaryRule ==
    BetweenSteps /\ mesh_.num_cells >= 2 =>
        /\ TransmissiveImage(U_)
        /\ ReflectiveImage(U_)
        /\ PeriodicSidesImage(U_)

\* A step has been completed on three cells, between a periodic and a
\* reflective side or any other two different rules, and it has changed the
\* ghost cells of both sides.
C18_Witness ==
    /\ pc = "loop"
    /\ step >= 1
    /\ mesh_.num_cells = 3
    /\ bc_left_ /= bc_right_
    /\ U_[0] /= U_entry[0]
    /\ U_[first_interior - 1] /= U_entry[first_interior - 1]
    /\ U_[last_interior(mesh_) + 1] /= U_entry[last_interior(mesh_) + 1]
    /\ U_[last_interior(mesh_) + 2] /= U_entry[last_interior(mesh_) + 2]

\* ------------------------------------------------------------------ C19
\* Both sides of the working copy of the running evaluation are filled.
BothFillsComplete ==
    U_temp = apply_right_boundary(bc_right_,
                 apply_left_boundary(bc_left_, RhsInput, mesh_), mesh_)

\* The flux of each of the N+1 interfaces first_interior-1 .. last_interior is
\* in the flux buffer, computed from the working copy.
AllInterfaceFluxesComputed ==
    \A i \in (first_interior - 1) .. last_interior(mesh_) :
        \E LR \in {interface_states(U_temp, W_, i, order_, limiter_, eos_)} :
            fluxes_[i + 1] = compute_flux(flux_, LR[1], LR[2], eos_)

\* One step of the program keeps the order of an evaluation.
RhsInOrder ==
    /\ pc \in RhsPcs /\ fluxes_' /= fluxes_ => pc = "rhs_flux"
    /\ pc = "rhs_flux" => BothFillsComplete /\ pc' = "rhs_div"
    /\ pc \in RhsPcs /\ dU' /= dU => pc = "rhs_div"
    /\ pc = "rhs_div" => AllInterfaceFluxesComputed

\* C19: within every right-hand-side evaluation, both boundary fills of the
\* working copy complete before the first interface flux is computed, and the
\* fluxes of all N+1 interfaces are computed before the divergence of any cell
\* is assembled.
C19_FillsThenFluxesThenDivergence == [][RhsInOrder]_vars

\* The evaluation of a stage array on three cells is about to assemble its
\* divergence: the fills have changed the copy, and the fluxes differ from one
\* end of the domain to the other.
C19_Witness ==
    /\ pc = "rhs_div"
    /\ rhs_arg = "U_1"
    /\ mesh_.num_cells = 3
    /\ U_temp /= RhsInput
    /\ BothFillsComplete
    /\ AllInterfaceFluxesComputed
    /\ fluxes_[first_interior] /= fluxes_[last_interior(mesh_) + 1]

\* ------------------------------------------------------------------ C20
\* The evaluation of U_in by a solver whose flux buffer holds F in every entry
\* before the call (the primitive buffer is overwritten whole).
EvaluationFrom(U_in, F) ==
    Val({ divergence(compute_fluxes([k \in DOMAIN fluxes_ |-> F], filled,
                                    primitives_of(eos_, filled), mesh_, order_,
                                    limiter_, flux_, eos_),
                     mesh_, total_cells(mesh_)) :
          filled \in {apply_right_boundary(bc_right_,
                          apply_left_boundary(bc_left_, U_in, mesh_), mesh_)} })

\* C20: every flux-buffer entry and every primitive-buffer entry read while
\* assembling a right-hand-side evaluation was written earlier in that same
\* evaluation, so the output of an evaluation is a function of its input array
\* alone and is the same whatever evaluations preceded it: when rhs_func returns,
\* dU is what a solver whose flux buffer was full of NaN computes from that
\* input.
C20_EvaluationDependsOnInputAlone ==
    pc = ret /\ rhs_log /= << >> =>
        \E last \in {rhs_log[Len(rhs_log)]} :
            /\ dU = last.output
            /\ last.output = EvaluationFrom(last.input, CV(NaN, NaN, NaN))

\* The third evaluation of a step after the first one: the buffers hold what
\* the evaluations before it left, and its result is not that of the first.
C20_Witness ==
    /\ step >= 1
    /\ pc = ret
    /\ Len(rhs_log) = 3
    /\ mesh_.num_cells = 3
    /\ rhs_log[3].input /= rhs_log[1].input
    /\ rhs_log[3].output /= rhs_log[1].output
    /\ rhs_log[3].output = EvaluationFrom(rhs_log[3].input, CVZero)

\* ------------------------------------------------------------------ C21
\* The entries of the flux buffer that the flux loop of the running evaluation
\* writes: those that do not keep what the buffer held before.
FluxEntriesWritten ==
    Val({ { k \in DOMAIN fluxes_ : F[k] /= CV(NaN, NaN, NaN) } :
          F \in {compute_fluxes([k \in DOMAIN fluxes_ |-> CV(NaN, NaN, NaN)], U_temp, W_,
                                 mesh_, order_, limiter_, flux_, eos_)} })

\* C21: the scratch flux buffer has length N+2G+1 and is overwritten in full on
\* every right-hand-side evaluation: after an evaluation, every one of its
\* N+2G+1 entries holds a value written during that evaluation.
C21_FluxBufferOverwrittenInFull ==
    pc = "rhs_div" =>
        /\ DOMAIN fluxes_ = 0 .. (mesh_.num_cells + 2 * num_ghosts)
        /\ FluxEntriesWritten = DOMAIN fluxes_

\* ------------------------------------------------------------------ C22
\* The ghost cells of each side, and the interior cells, of the mesh.
LeftGhosts == 0 .. (first_interior - 1)
RightGhosts == (last_interior(mesh_) + 1) .. (total_cells(mesh_) - 1)
InteriorCells == first_interior .. last_interior(mesh_)

\* U with every ghost cell replaced by a marker that no interior cell holds.
GhostsMarked(U) ==
    [i \in DOMAIN U |-> IF i \in InteriorCells THEN U[i] ELSE CV(NaN, NaN, NaN)]

\* Filling the ghost cells `side` of U gives V: V differs from U in the cells
\* of that side only, and these are what the fill Vm of the marked array put
\* there, so that no ghost cell of U was read.
FillReadsInteriorOnly(U, V, Vm, side) ==
    /\ \A i \in DOMAIN U \ side : V[i] = U[i]
    /\ \A i \in side : V[i] = Vm[i]

\* C22: for every boundary rule and every mesh with N >= 1, the fill of one
\* side is a function of interior cell values only and changes only the G ghost
\* cells of that side: it never reads a ghost cell, never writes an interior
\* cell and never writes a ghost cell of the other side.
C22_FillReadsInteriorWritesOwnGhosts ==
    pc = "rhs_fill" /\ mesh_.num_cells >= 1 =>
        /\ FillReadsInteriorOnly(RhsInput,
               apply_left_boundary(bc_left_, RhsInput, mesh_),
               apply_left_boundary(bc_left_, GhostsMarked(RhsInput), mesh_), LeftGhosts)
        /\ FillReadsInteriorOnly(RhsInput,
               apply_right_boundary(bc_right_, RhsInput, mesh_),
               apply_right_boundary(bc_right_, GhostsMarked(RhsInput), mesh_), RightGhosts)

\* ------------------------------------------------------------------ C23
\* rhs_func has just returned to the integrator.
EvaluationReturned == pc = ret /\ rhs_log /= << >>

\* The output is zero in every ghost cell.
GhostOutputZero == \A i \in LeftGhosts \cup RightGhosts : dU[i] = CVZero

InteriorSpeeds ==
    { s \in { Add(FAbs(Div(U_entry[i].rho_u, U_entry[i].rho)), sound_speed(eos_, U_entry[i])) :
                i \in InteriorCells } : ~IsNaN(s) }

MaxInteriorSpeed ==
    CHOOSE m \in InteriorSpeeds \cup {0} : \A s \in InteriorSpeeds : s <= m

\* cfl * dx / max_speed, with 1 for a max_speed below epsilon
StableDt ==
    Val({ Div(Mul(config_.time.cfl, mesh_.dx), IF LtEpsilon(m) THEN One ELSE m) :
          m \in {MaxInteriorSpeed} })

\* C24: the timestep of a step is cfl*dx/max_speed, where max_speed is the
\* maximum of |u|+c over the interior cells of the committed state at the start
\* of the step (ghost-cell values never influence it), with max_speed replaced
\* by 1 when that maximum is below the numerical epsilon. This is the value
\* that run() then clamps to the time left.
C24_TimestepFromInteriorMaxSpeed ==
    pc = "advance" =>
        \E d \in {StableDt} :
            dt = IF Lt(config_.time.final_time, Add(time_, d))
                 THEN Sub(config_.time.final_time, time_)
                 ELSE d

\* A step after the first, on three cells that do not all have the same speed,
\* takes the whole stable timestep.
C24_Witness ==
    /\ pc = "advance"
    /\ step >= 1
    /\ mesh_.num_cells = 3
    /\ Cardinality(InteriorSpeeds) >= 2
    /\ dt = StableDt
    /\ Lt(Add(time_, dt), config_.time.final_time)
    /\ Lt(0, dt)

\* ------------------------------------------------------------------ C25
\* The coefficient for a flux jump dF, a state jump dUj and S = |dF / dUj|:
\* 0 for a flux jump below epsilon, else L_min for a state jump below epsilon,
\* else 0 for S below epsilon, else S clipped into [L_min, L_max].
ClippedWaveSpeed(dF, dUj, S, L_max, L_min) ==
    IF Lt(dF, movers_epsilon) THEN 0
    ELSE IF Lt(dUj, movers_epsilon) THEN L_min
    ELSE IF Lt(S, movers_epsilon) THEN 0
    ELSE IF Le(L_max, S) THEN L_max
    ELSE IF Le(S, L_min) THEN L_min
    ELSE S

\* C25: for each component, the MoversLE dissipation coefficient is 0 when the
\* flux jump |F_R - F_L| is below epsilon; otherwise it is the minimum
\* eigenvalue magnitude when the state jump |U_R - U_L| is below epsilon;
\* otherwise it is S = |(F_R - F_L)/(U_R - U_L)| clipped into [min eigenvalue,
\* max eigenvalue], or 0 when S is below epsilon; this holds for all jump
\* magnitudes, including those exactly equal to epsilon.
C25_DissipationCoefficient ==
    call.fn = "compute_dissipation" =>
        call.diss = ClippedWaveSpeed(FAbs(Sub(call.Fr, call.Fl)),
                                     FAbs(Sub(call.Ur, call.Ul)),
                                     FAbs(Div(Sub(call.Fr, call.Fl), Sub(call.Ur, call.Ul))),
                                     call.L_max, call.L_min)

\* ------------------------------------------------------------------ C26
\* The indices of U that the fill of a side reads or writes
\* (boundary/boundary.hpp: the loops of apply_left and apply_right).
fill_indices_left(bc, mesh) ==
    CASE bc = "TransmissiveBoundary" ->
            (0 .. (first_interior - 1)) \cup {first_interior}
      [] bc = "ReflectiveBoundary" ->
            UNION { {first_interior - 1 - g, first_interior + g} : g \in 0 .. (num_ghosts - 1) }
      [] bc = "PeriodicBoundary" ->
            UNION { {first_interior - 1 - g, last_interior(mesh) - g} : g \in 0 .. (num_ghosts - 1) }

fill_indices_right(bc, mesh) ==
    CASE bc = "TransmissiveBoundary" ->
            ((last_interior(mesh) + 1) .. (total_cells(mesh) - 1)) \cup {last_interior(mesh)}
      [] bc = "ReflectiveBoundary" ->
            UNION { {last_interior(mesh) + 1 + g, last_interior(mesh) - g} : g \in 0 .. (num_ghosts - 1) }
      [] bc = "PeriodicBoundary" ->
            UNION { {last_interior(mesh) + 1 + g, first_interior + g} : g \in 0 .. (num_ghosts - 1) }

\* A stencil two cells wide on the right of the interface only.
muscl_stencil_Shifted(i) == {i, i + 1, i + 2, i + 3}

\* MUSCLReconstruction::reconstruct: W[i - 1], W[i], W[i + 1], W[i + 2]
muscl_stencil(i) == {i - 1, i, i + 1, i + 2}

\* Solver::compute_rhs, first order: U[i], U[i + 1]
first_order_stencil(i) == {i, i + 1}

\* Solver::compute_rhs: the interfaces of the flux loop, i = first - 1 .. last
interface_range(mesh) == (first_interior - 1) .. last_interior(mesh)

\* Solver::compute_rhs: the cells read by the flux loop
stencil_indices(order, mesh) ==
    UNION { IF order >= 2 THEN muscl_stencil(i) ELSE first_order_stencil(i) :
            i \in interface_range(mesh) }

\* Solver::compute_rhs: fluxes_[i + 1] written by the flux loop, and
\* fluxes_[i], fluxes_[i + 1] read by the divergence loop
flux_indices(mesh) ==
    { i + 1 : i \in interface_range(mesh) }
        \cup UNION { {i, i + 1} : i \in first_interior .. last_interior(mesh) }

\* The loops over a whole array: PiecewiseConstantIC::apply, the primitives
\* and the zeroing of dU in compute_rhs, the updates of the integrators.
whole_array_indices(mesh) == 0 .. (total_cells(mesh) - 1)

\* C26: for every mesh with N >= 1, either spatial order and every boundary
\* rule, every array access made during construction, boundary fill,
\* right-hand-side evaluation (the MUSCL 4-cell stencil i-1..i+2 at interfaces
\* first_interior-1..last_interior included) and divergence assembly uses an
\* index inside the accessed array: [0, N+2G) for state and primitive arrays
\* and [0, N+2G] for the flux array.
C26_IndicesInBounds ==
    Constructed /\ mesh_.num_cells >= 1 =>
        /\ DOMAIN U_ = 0 .. (mesh_.num_cells + 2 * num_ghosts - 1)
        /\ DOMAIN W_ = DOMAIN U_
        /\ DOMAIN fluxes_ = 0 .. (mesh_.num_cells + 2 * num_ghosts)
        /\ whole_array_indices(mesh_) \subseteq DOMAIN U_
        /\ fill_indices_left(bc_left_, mesh_) \subseteq DOMAIN U_
        /\ fill_indices_right(bc_right_, mesh_) \subseteq DOMAIN U_
        /\ stencil_indices(order_, mesh_) \subseteq DOMAIN W_
        /\ flux_indices(mesh_) \subseteq DOMAIN fluxes_
        /\ pc \in RhsPcs \ {"rhs_fill"} => DOMAIN U_temp = DOMAIN U_
        /\ pc \in RhsPcs => DOMAIN RhsInput = DOMAIN U_

\* A second-order evaluation on a single interior cell between a reflective
\* and a periodic side: the stencils reach the first and the last cell of the
\* arrays.
C26_Witness ==
    /\ pc = "rhs_div"
    /\ mesh_.num_cells = 1
    /\ order_ = 2
    /\ bc_left_ = "ReflectiveBoundary"
    /\ bc_right_ = "PeriodicBoundary"
    /\ 0 \in stencil_indices(order_, mesh_)
    /\ (total_cells(mesh_) - 1) \in stencil_indices(order_, mesh_)

\* ------------------------------------------------------------------ C27
\* U with every ghost cell replaced by the state c.
GhostsReplaced(U, c) ==
    [i \in DOMAIN U |-> IF i \in InteriorCells THEN U[i] ELSE c]

\* C27: the output of the solver's right-hand-side callback does not depend on
\* the ghost-cell values of its input: for every N >= 1, spatial order and
\* pair of boundary rules, two input arrays that agree on all interior cells
\* produce identical derivative arrays. Here the second array has the state
\* (rho, rho_u, E) = (3, 12, 40) in every ghost cell.
C27_OutputIndependentOfInputGhosts ==
    EvaluationReturned /\ mesh_.num_cells >= 1 =>
        \E last \in {rhs_log[Len(rhs_log)]} :
            last.output =
                EvaluationFrom(GhostsReplaced(last.input, CV(3 * One, 12 * One, 40 * One)),
                               CVZero)

\* ------------------------------------------------------------------ C28
\* The array Solver::apply_boundaries leaves when it is given U.
BoundariesApplied(U) == apply_boundaries(bc_left_, bc_right_, U, mesh_)

\* C28: applying the boundary conditions is idempotent: for every N >= 1 and
\* every pair of boundary rules, the left fill then the right fill applied a
\* second time leaves the array exactly as the first application left it.
\* The array is the one a step hands to apply_boundaries.
C28_ApplyBoundariesIdempotent ==
    pc = "commit" /\ mesh_.num_cells >= 1 =>
        BoundariesApplied(BoundariesApplied(U_)) = BoundariesApplied(U_)

\* ------------------------------------------------------------------ C29
\* C29: MUSCL reconstruction with the None limiter returns, for every stencil,
\* exactly the pair (W[i], W[i+1]) that first-order reconstruction returns.
C29_NoneLimiterIsFirstOrder ==
    call.fn = "reconstruct" /\ call.limiter = "None" =>
        << call.W_L, call.W_R >> = << call.W[call.i], call.W[call.i + 1] >>

\* ------------------------------------------------------------------ C30
\* x lies in the closed interval between a and b.
BetweenReals(x, a, b) ==
    /\ ~IsNaN(x)
    /\ \/ a <= x /\ x <= b
       \/ b <= x /\ x <= a

\* Each component of V lies between that component of A and of B.
BetweenStates(V, A, B) ==
    /\ BetweenReals(V.rho, A.rho, B.rho)
    /\ BetweenReals(V.u, A.u, B.u)
    /\ BetweenReals(V.p, A.p, B.p)

\* C30: for every limiter and every 4-cell stencil, each component of the MUSCL
\* left state W_L and right state W_R lies in the closed interval between the
\* adjacent cell averages W[i] and W[i+1] of that component.
C30_InterfaceStatesBetweenNeighbours ==
    call.fn = "reconstruct" =>
        /\ BetweenStates(call.W_L, call.W[call.i], call.W[call.i + 1])
        /\ BetweenStates(call.W_R, call.W[call.i], call.W[call.i + 1])

====
